---- MODULE Spec2Model ----
(***************************************************************************)
(* A model of CatkinWorkspace (src/src/catkin_workspace.ts): the compile-  *)
(* database store (updateDatabase), the dependency traversal               *)
(* (iterateDependentPackages, iteratePossibleSourceFiles), the reload      *)
(* sequence and the file-system watches.                                   *)
(*                                                                         *)
(* JavaScript Maps are functions whose DOMAIN is the set of keys present.  *)
(* Every await of the source is a point where other handlers may run, so   *)
(* an async method is one action per stretch of code between two awaits.   *)
(***************************************************************************)
EXTENDS Integers, Sequences, FiniteSets, TLC

\* ------------------------------------------------------------------------
\* The environment: compile databases below the build root and what they
\* may list.
\* ------------------------------------------------------------------------
DbFiles == {"build/A/compile_commands.json", "build/B/compile_commands.json"}
SrcFiles == {"a.cpp", "b.cpp"}
Commands == {"g++ -c"}

\* One element of the JSON array of a compile database.
Records == [file : SrcFiles, command : Commands]

\* Longest compile database on disk.
MaxRecords == 1
\* updateDatabase calls that may wait on jsonfile.readFile at one time.
MaxInflight == 1

Contents == UNION {[1..n -> Records] : n \in 0..MaxRecords}


\* ------------------------------------------------------------------------
\* Map operations.
\* ------------------------------------------------------------------------
EmptyMap == [k \in {} |-> TRUE]

MapSet(m, k, v) == [x \in (DOMAIN m) \cup {k} |-> IF x = k THEN v ELSE m[x]]

MapDelete(m, k) == [x \in (DOMAIN m) \ {k} |-> m[x]]

VARIABLES
  \* --- the file system
  disk,                      \* the db_files that exist (fs.existsSync)
  \* --- CatkinWorkspace fields
  compile_commands,          \* Map db_file -> db_part
  file_to_command,           \* Map file -> cmd (an object of some db_part)
  file_to_compile_commands,  \* Map file -> db_file
  \* --- updateDatabase calls suspended at `await jsonfile.readFile`
  inflight,                  \* db_file -> number of such calls
  \* --- history
  lastOp,                    \* what the last handler did and returned
  untouched,                 \* db_file -> since its last update merged compile_commands[db_file],
                             \*   no other update and no reload wrote or removed a record it lists
  lastWriter,                \* file -> db_file whose update last wrote file_to_command[file]
  \* --- the package registry
  packages,                  \* Map name -> CatkinPackage (dependencies, dependees)
  \* --- one call of iterateDependentPackages / iteratePossibleSourceFiles
  call,                      \* the method called from outside, "none" before
  start_package,             \* the package iterateDependentPackages was given
  it_pc,                     \* where iterateDependentPackages stands
  unchecked_pkgs,            \* its queue
  checked_pkgs,              \* its Set of names seen
  visits,                    \* the calls of async_filter it made: <<name, returned>>
  it_result,                 \* what it returned
  owner_package,             \* iteratePossibleSourceFiles: getPackageContaining(file)
  owner_checked_pkgs,        \* iteratePossibleSourceFiles: its list checked_pkgs
  offers,                    \* the packages that were handed the file: <<name, accepted>>
  ipsf_result,               \* what iteratePossibleSourceFiles returned
  \* --- CatkinWorkspace fields, continued
  is_initialized,
  catkin_profile,
  catkin_build_dir,
  build_dir,
  ignore_missing_db,
  ignored,                   \* history: the user has answered "Ignore this"
  watchers,                  \* the keys of the Map path -> fs.FSWatcher
  \* --- the operating system
  active,                    \* path -> number of fs.watch handles not closed
  \* --- reload calls under way and done
  frames,                    \* the reload calls, the innermost last
  reloads,                   \* number of reload calls made from outside
  lastReload,                \* how the reload call that ended last ended
  new_package_loads,         \* build dirs whose creation handler waits for loadPackage
  \* --- CatkinWorkspace fields read by getSourceFileConfiguration
  default_system_include_paths,
  system_include_browse_paths,
  \* --- history
  configurations             \* the getSourceFileConfiguration calls since the last clear

storeVars == <<compile_commands, file_to_command, file_to_compile_commands>>
histVars == <<lastOp, untouched, lastWriter>>
iterVars == <<call, start_package, it_pc, unchecked_pkgs, checked_pkgs, visits, it_result,
              owner_package, owner_checked_pkgs, offers, ipsf_result>>
wsVars == <<is_initialized, catkin_profile, catkin_build_dir, build_dir,
            ignore_missing_db, ignored>>
watchVars == <<watchers, active>>
reloadVars == <<frames, reloads, lastReload, wsVars, watchVars, new_package_loads>>
configVars == <<default_system_include_paths, system_include_browse_paths, configurations>>
vars == <<disk, storeVars, inflight, histVars, packages, iterVars, reloadVars, configVars>>

\* What the store's handlers and the build leave alone.
notStore == <<packages, iterVars, reloadVars, configVars>>

\* What the traversal methods leave alone.
notIter == <<disk, storeVars, inflight, histVars, packages, reloadVars, configVars>>

NoWriter == "none"
NoDb == "none"

\* ------------------------------------------------------------------------
\* Object identity.  jsonfile.readFile parses the file into new objects on
\* every call; `!==` on objects compares identity.  An object is named by
\* the parse that made it (rid) and its index in the array.  Identities are
\* compared in one place only, with the objects file_to_command holds, so a
\* new parse takes the least rid that none of those carries: it is as good as
\* any unused one.  compile_commands keeps the parsed array as its content.
\* ------------------------------------------------------------------------
LiveRids(ftc) == {ftc[f].rid : f \in DOMAIN ftc}

FreshRid(ftc) ==
  CHOOSE r \in 0..Cardinality(SrcFiles) :
    /\ r \notin LiveRids(ftc)
    /\ \A s \in 0..(r - 1) : s \in LiveRids(ftc)

\* db_part[index] of the parse rid of content c.
CmdObject(c, rid, index) ==
  [file |-> c[index].file, command |-> c[index].command, rid |-> rid, index |-> index]

\* this.file_to_command.get(file) !== cmd
NotSameObject(ftc, file, cmd) ==
  \/ file \notin DOMAIN ftc
  \/ ~(ftc[file].rid = cmd.rid /\ ftc[file].index = cmd.index)

\* ------------------------------------------------------------------------
\* updateDatabase
\* ------------------------------------------------------------------------

\* Whether the array c lists one of the files fs.
Lists(c, fs) == \E i \in 1..Len(c) : c[i].file \in fs

\* this.compile_commands.get(db_file), an empty array for no entry.
ListedBy(cc, db_file) == IF db_file \in DOMAIN cc THEN cc[db_file] ELSE <<>>

\* (a removal loop whose test is always met)
OriginKeysAnyDb(origin, db_file) == DOMAIN origin

\* The keys the removal loop deletes: the entries whose value is db_file.
OriginKeys(origin, db_file) == {f \in DOMAIN origin : origin[f] = db_file}

\* A Map restricted to the keys outside ks (a run of delete calls).
MapDeleteAll(m, ks) == [x \in (DOMAIN m) \ ks |-> m[x]]

\* (a merge loop that records the origin of new keys only)
RECURSIVE MergeRecordsFirstOrigin(_, _, _, _, _)
MergeRecordsFirstOrigin(st, c, rid, db_file, i) ==
  IF i > Len(c) THEN st
  ELSE LET cmd == CmdObject(c, rid, i)
           file == cmd.file
       IN IF NotSameObject(st.ftc, file, cmd)
          THEN MergeRecordsFirstOrigin(
                 [ftc |-> MapSet(st.ftc, file, cmd),
                  origin |-> IF file \in DOMAIN st.origin THEN st.origin
                             ELSE MapSet(st.origin, file, db_file),
                  change |-> TRUE,
                  written |-> st.written \cup {file}],
                 c, rid, db_file, i + 1)
          ELSE MergeRecordsFirstOrigin(st, c, rid, db_file, i + 1)

\* The loop over db_part, from index i on.  st is [ftc, origin, change, written].
RECURSIVE MergeRecords(_, _, _, _, _)
MergeRecords(st, c, rid, db_file, i) ==
  IF i > Len(c) THEN st
  ELSE LET cmd == CmdObject(c, rid, i)
           file == cmd.file
       IN IF NotSameObject(st.ftc, file, cmd)
          THEN MergeRecords([ftc |-> MapSet(st.ftc, file, cmd),
                             origin |-> MapSet(st.origin, file, db_file),
                             change |-> TRUE,
                             written |-> st.written \cup {file}],
                            c, rid, db_file, i + 1)
          ELSE MergeRecords(st, c, rid, db_file, i + 1)

RECURSIVE SumOver(_, _)
SumOver(f, ks) ==
  IF ks = {} THEN 0
  ELSE LET k == CHOOSE x \in ks : TRUE IN f[k] + SumOver(f, ks \ {k})

InflightTotal == SumOver(inflight, DbFiles)

\* A handler's outcome, for the history.
Outcome(op, db_file, returned, signalled, wasRepeat, touched) ==
  [op |-> op, db |-> db_file, returned |-> returned, signalled |-> signalled,
   wasRepeat |-> wasRepeat, touched |-> touched]

\* updateDatabase(db_file) when the file does not exist: runs to its return.
UpdateDatabaseMissingBody(db_file) ==
  /\ LET ks == OriginKeys(file_to_compile_commands, db_file)
     IN /\ file_to_command' = MapDeleteAll(file_to_command, ks)
        /\ file_to_compile_commands' = MapDeleteAll(file_to_compile_commands, ks)
        /\ lastWriter' = [f \in SrcFiles |-> IF f \in ks THEN NoWriter ELSE lastWriter[f]]
        /\ lastOp' = Outcome("updateDatabase, no file", db_file, TRUE, TRUE, FALSE, ks)
        /\ untouched' = [d \in DbFiles |->
                           untouched[d] /\ d # db_file /\ ~Lists(ListedBy(compile_commands, d), ks)]
  /\ UNCHANGED <<disk, compile_commands, inflight>>

UpdateDatabaseMissing(db_file) ==
  /\ UNCHANGED notStore
  /\ db_file \notin disk
  /\ UpdateDatabaseMissingBody(db_file)

\* updateDatabase(db_file) when the file exists: up to `await jsonfile.readFile`.
UpdateDatabaseReadBody(db_file) ==
  /\ InflightTotal < MaxInflight
  /\ inflight' = [inflight EXCEPT ![db_file] = @ + 1]
  /\ UNCHANGED <<disk, storeVars, histVars>>

UpdateDatabaseRead(db_file) ==
  /\ UNCHANGED notStore
  /\ db_file \in disk
  /\ UpdateDatabaseReadBody(db_file)

\* updateDatabase(db_file) called and not awaited: what it does before it
\* returns its promise.
UpdateDatabaseUnawaited(db_file) ==
  IF db_file \in disk THEN UpdateDatabaseReadBody(db_file)
  ELSE UpdateDatabaseMissingBody(db_file)

\* jsonfile.readFile rejects (the file vanished after existsSync):
\* updateDatabase has no try/catch and no caller awaits it, the call ends.
ReadFileFails(db_file) ==
  /\ UNCHANGED notStore
  /\ inflight[db_file] > 0
  /\ db_file \notin disk
  /\ inflight' = [inflight EXCEPT ![db_file] = @ - 1]
  /\ lastOp' = Outcome("updateDatabase, rejected", db_file, FALSE, FALSE, FALSE, {})
  /\ UNCHANGED <<disk, storeVars, untouched, lastWriter>>

\* jsonfile.readFile resolves with the array c the file holds at that moment,
\* and updateDatabase(db_file) runs on to its return: the merge loop.
UpdateDatabaseMergeOf(db_file, c) ==
  /\ UNCHANGED notStore
  /\ inflight[db_file] > 0
  /\ db_file \in disk
  /\ inflight' = [inflight EXCEPT ![db_file] = @ - 1]
  /\ UNCHANGED disk
  /\ \E st \in {MergeRecords([ftc |-> file_to_command,
                               origin |-> file_to_compile_commands,
                               change |-> FALSE, written |-> {}],
                              c, FreshRid(file_to_command), db_file, 1)} :
          /\ compile_commands' = MapSet(compile_commands, db_file, c)
          /\ file_to_command' = st.ftc
          /\ file_to_compile_commands' = st.origin
          /\ lastWriter' = [f \in SrcFiles |->
                              IF f \in st.written THEN db_file ELSE lastWriter[f]]
          /\ untouched' = [d \in DbFiles |->
                             \/ d = db_file
                             \/ untouched[d] /\ ~Lists(ListedBy(compile_commands, d), st.written)]
          /\ lastOp' = Outcome("updateDatabase", db_file, st.change, st.change,
                               /\ untouched[db_file]
                               /\ db_file \in DOMAIN compile_commands
                               /\ compile_commands[db_file] = c,
                               st.written)

UpdateDatabaseMerge(db_file) ==
  \E c \in Contents : UpdateDatabaseMergeOf(db_file, c)

\* The same, the file holding what the build of the one source file writes.
BuiltContents == {<<[file |-> "a.cpp", command |-> "g++ -c"]>>}

UpdateDatabaseMergeBuilt(db_file) ==
  \E c \in BuiltContents : UpdateDatabaseMergeOf(db_file, c)

\* ------------------------------------------------------------------------
\* reload, lines 69-81: the caches are cleared and the signal dispatched.
\* ------------------------------------------------------------------------
ClearStore ==
  /\ compile_commands' = EmptyMap
  /\ file_to_command' = EmptyMap
  /\ file_to_compile_commands' = EmptyMap
  /\ untouched' = [d \in DbFiles |-> FALSE]
  /\ lastWriter' = [f \in SrcFiles |-> NoWriter]

\* reload forgets the include paths it had collected.
ClearConfig ==
  /\ system_include_browse_paths' = <<>>
  /\ default_system_include_paths' = <<>>
  /\ configurations' = <<>>

StoreReload ==
  /\ UNCHANGED <<packages, iterVars, reloadVars>>
  /\ ClearStore
  /\ ClearConfig
  /\ lastOp' = Outcome("reload", NoDb, FALSE, TRUE, FALSE, {})
  /\ UNCHANGED <<disk, inflight>>

\* ------------------------------------------------------------------------
\* The build writes, rewrites and removes compile databases.
\* ------------------------------------------------------------------------
DiskCreate(db_file) ==
  /\ UNCHANGED notStore
  /\ db_file \notin disk
  /\ disk' = disk \cup {db_file}
  /\ UNCHANGED <<storeVars, inflight, histVars>>

DiskRemove(db_file) ==
  /\ UNCHANGED notStore
  /\ db_file \in disk
  /\ disk' = disk \ {db_file}
  /\ UNCHANGED <<storeVars, inflight, histVars>>

\* ------------------------------------------------------------------------
\* The workspace as its constructor leaves it.
\* ------------------------------------------------------------------------
Profiles == {"default", "release"}
NoProfile == "null"
\* The directory `catkin locate -b` prints.
BuildDir == "build"
NullDir == "null"
PkgBuildDirs == {"build/A", "build/B"}
\* The build space of a profile that has one of its own; the build has not
\* run in it.
ReleaseBuildDir == "build_release"
BuildRoots == {BuildDir, ReleaseBuildDir}
WatchPaths == BuildRoots \cup PkgBuildDirs \cup DbFiles

NoReload ==
  [outcome |-> "none", ready |-> FALSE, cancelled |-> FALSE, failed |-> {},
   loaded |-> {}, registered |-> {}, left |-> 0, shown |-> 0, built |-> FALSE,
   set_ready |-> FALSE, fired |-> FALSE]

Constructed ==
  /\ is_initialized = FALSE
  /\ catkin_profile = NoProfile
  /\ catkin_build_dir = NullDir
  /\ build_dir = NullDir
  /\ ignore_missing_db = FALSE
  /\ ignored = FALSE
  /\ watchers = {}
  /\ active = [p \in WatchPaths |-> 0]
  /\ frames = <<>>
  /\ reloads = 0
  /\ lastReload = NoReload
  /\ new_package_loads = {}
  /\ default_system_include_paths = <<>>
  /\ system_include_browse_paths = <<>>
  /\ configurations = <<>>

\* No call of the traversal methods is under way.
IterIdle ==
  /\ call = "none"
  /\ start_package = "undefined"
  /\ it_pc = "idle"
  /\ unchecked_pkgs = <<>>
  /\ checked_pkgs = {}
  /\ visits = <<>>
  /\ it_result = "none"
  /\ owner_package = "undefined"
  /\ owner_checked_pkgs = <<>>
  /\ offers = <<>>
  /\ ipsf_result = "none"

InitStore ==
  /\ packages = EmptyMap
  /\ IterIdle
  /\ Constructed
  /\ disk = {}
  /\ compile_commands = EmptyMap
  /\ file_to_command = EmptyMap
  /\ file_to_compile_commands = EmptyMap
  /\ inflight = [d \in DbFiles |-> 0]
  /\ lastOp = Outcome("constructor", NoDb, FALSE, FALSE, FALSE, {})
  /\ untouched = [d \in DbFiles |-> FALSE]
  /\ lastWriter = [f \in SrcFiles |-> NoWriter]

NextStore ==
  \/ \E d \in DbFiles : DiskCreate(d)
  \/ \E d \in DbFiles : DiskRemove(d)
  \/ \E d \in DbFiles : UpdateDatabaseMissing(d)
  \/ \E d \in DbFiles : UpdateDatabaseRead(d)
  \/ \E d \in DbFiles : ReadFileFails(d)
  \/ \E d \in DbFiles : UpdateDatabaseMerge(d)
  \/ StoreReload

SpecStore == InitStore /\ [][NextStore]_vars

\* ------------------------------------------------------------------------
\* Claims about the store.
\* ------------------------------------------------------------------------

\* C1: an updateDatabase call on a file whose content is what the previous
\* updateDatabase call on it merged, with no record of it written or removed
\* by another update or a reload in between, returns false and dispatches no
\* build_commands_changed.
C1_SecondUpdateReportsNoChange ==
  (lastOp.op = "updateDatabase" /\ lastOp.wasRepeat)
    => (~lastOp.returned /\ ~lastOp.signalled)

\* C2: updateDatabase on a file that no longer exists removes from
\* file_to_command and file_to_compile_commands exactly the keys whose origin
\* is that file, and leaves every other entry as it was.
C2_DeletionCascade ==
  [][\A d \in DbFiles : UpdateDatabaseMissing(d) =>
       LET gone == {f \in DOMAIN file_to_compile_commands :
                      file_to_compile_commands[f] = d}
       IN /\ DOMAIN file_to_command' = (DOMAIN file_to_command) \ gone
          /\ \A f \in DOMAIN file_to_command' :
                file_to_command'[f] = file_to_command[f]
          /\ DOMAIN file_to_compile_commands' = (DOMAIN file_to_compile_commands) \ gone
          /\ \A f \in DOMAIN file_to_compile_commands' :
                file_to_compile_commands'[f] = file_to_compile_commands[f]
    ]_vars

\* C2 witness: updateDatabase has just run for a removed file that lists a
\* source file whose record another database file wrote last; the record is
\* still there.
C2_Witness ==
  /\ lastOp.op = "updateDatabase, no file"
  /\ \E f \in DOMAIN file_to_command :
       /\ Lists(ListedBy(compile_commands, lastOp.db), {f})
       /\ file_to_compile_commands[f] # lastOp.db

\* C3: a source file has a record iff it has an origin, and the origin is the
\* database file whose update last wrote the record.
C3_OneOriginLastWriter ==
  /\ DOMAIN file_to_command = DOMAIN file_to_compile_commands
  /\ \A f \in SrcFiles :
       IF f \in DOMAIN file_to_command
       THEN file_to_compile_commands[f] = lastWriter[f]
       ELSE lastWriter[f] = NoWriter

\* C3 witness: two database files that list one source file have been
\* merged, and the file has its record.
C3_Witness ==
  \E f \in DOMAIN file_to_command :
    \A d \in DbFiles : Lists(ListedBy(compile_commands, d), {f})

\* ------------------------------------------------------------------------
\* The package registry and the traversal of the dependees edges.
\* ------------------------------------------------------------------------
Pkgs == {"A", "B", "C", "D"}
\* A dependee name that getPackage resolves to no package.
Unknown == "ghost"
PkgNames == Pkgs \cup {Unknown}

\* Most dependees entries in the registry as a whole.
MaxEdges == 3

\* this.getPackage(name) !== undefined
Registered(pkgs, name) == name \in DOMAIN pkgs

\* The names of the pairs of es that target p, in order: p.dependees.
RECURSIVE Targets(_, _, _)
Targets(es, p, i) ==
  IF i > Len(es) THEN <<>>
  ELSE IF es[i][1] = p THEN <<es[i][2]>> \o Targets(es, p, i + 1)
       ELSE Targets(es, p, i + 1)

\* The registries with the packages Pkgs and the dependees that the
\* sequence es of <<package, dependee name>> gives them.
RegistryOf(es) ==
  [p \in Pkgs |-> [dependencies |-> {}, dependees |-> Targets(es, p, 1)]]

\* getPackageContaining(file): the first package, in the order of the Map,
\* whose containsFile(file) holds; containing is the set of those packages.
PackageOrder == <<"A", "B", "C", "D">>

RECURSIVE FirstContaining(_, _)
FirstContaining(containing, i) ==
  IF i > Len(PackageOrder) THEN "undefined"
  ELSE IF PackageOrder[i] \in containing THEN PackageOrder[i]
       ELSE FirstContaining(containing, i + 1)

\* checked_pkgs.findIndex(e => e === name) < 0
NotInList(list, name) == \A i \in 1..Len(list) : list[i] # name

\* (a loop that pushes the new dependees in front of the queue)
QueueAfterVisitDepthFirst(queue, pkgs, name) ==
  pkgs[name].dependees \o Tail(queue)

\* The queue after the package `name`, taken from its head, was visited and
\* did not stop the traversal: lines 212 and 223-225.
QueueAfterVisit(queue, pkgs, name) ==
  Tail(queue) \o pkgs[name].dependees

\* checked_pkgs.add(dep_name)
MarkChecked(checked, name) == checked \cup {name}

\* (a callback that hands the file to every package it is called with)
NeedsOfferAlways(list, name) == TRUE

\* The callback of iteratePossibleSourceFiles hands the file to the package
\* unless the list checked_pkgs holds its name: line 181.
NeedsOffer(list, name) == NotInList(list, name)

\* iterateDependentPackages(catkin_package, async_filter), lines 204-208.
BeginIteration(catkin_package) ==
  /\ start_package' = catkin_package
  /\ it_pc' = "loop"
  /\ checked_pkgs' = {}
  /\ unchecked_pkgs' = packages[catkin_package].dependees
  /\ visits' = <<>>
  /\ it_result' = "none"

\* A call of iterateDependentPackages from outside, with a filter that may
\* return anything.
IterateDependentPackagesCall(catkin_package) ==
  /\ call = "none"
  /\ catkin_package \in DOMAIN packages
  /\ call' = "iterateDependentPackages"
  /\ BeginIteration(catkin_package)
  /\ UNCHANGED <<owner_package, owner_checked_pkgs, offers, ipsf_result>>
  /\ UNCHANGED notIter

\* One turn of the while loop whose name was seen before: line 213 fails.
IterateSkipChecked ==
  /\ it_pc = "loop"
  /\ unchecked_pkgs # <<>>
  /\ Head(unchecked_pkgs) \in checked_pkgs
  /\ unchecked_pkgs' = Tail(unchecked_pkgs)
  /\ UNCHANGED <<call, start_package, it_pc, checked_pkgs, visits, it_result,
                 owner_package, owner_checked_pkgs, offers, ipsf_result>>
  /\ UNCHANGED notIter

\* One turn of the while loop whose name resolves to no package: line 217 fails.
IterateSkipUnknown ==
  /\ it_pc = "loop"
  /\ unchecked_pkgs # <<>>
  /\ Head(unchecked_pkgs) \notin checked_pkgs
  /\ ~Registered(packages, Head(unchecked_pkgs))
  /\ checked_pkgs' = MarkChecked(checked_pkgs, Head(unchecked_pkgs))
  /\ unchecked_pkgs' = Tail(unchecked_pkgs)
  /\ UNCHANGED <<call, start_package, it_pc, visits, it_result,
                 owner_package, owner_checked_pkgs, offers, ipsf_result>>
  /\ UNCHANGED notIter

\* (a loop that goes on after the filter returned true)
AfterFilterIgnoringStop(dep_name, stop) ==
  /\ checked_pkgs' = MarkChecked(checked_pkgs, dep_name)
  /\ visits' = Append(visits, <<dep_name, stop>>)
  /\ it_pc' = "loop"
  /\ it_result' = it_result
  /\ unchecked_pkgs' = QueueAfterVisit(unchecked_pkgs, packages, dep_name)

\* The rest of a turn of the while loop once async_filter(dependency) has
\* returned stop: lines 220-225.
AfterFilter(dep_name, stop) ==
  /\ checked_pkgs' = MarkChecked(checked_pkgs, dep_name)
  /\ visits' = Append(visits, <<dep_name, stop>>)
  /\ IF stop
     THEN /\ it_pc' = "done"
          /\ it_result' = "true"
          /\ unchecked_pkgs' = Tail(unchecked_pkgs)
     ELSE /\ it_pc' = "loop"
          /\ it_result' = it_result
          /\ unchecked_pkgs' = QueueAfterVisit(unchecked_pkgs, packages, dep_name)

\* One turn of the while loop that calls the filter, the filter being any
\* function of the caller.
IterateVisit ==
  /\ call = "iterateDependentPackages"
  /\ it_pc = "loop"
  /\ unchecked_pkgs # <<>>
  /\ Head(unchecked_pkgs) \notin checked_pkgs
  /\ Registered(packages, Head(unchecked_pkgs))
  /\ \E stop \in BOOLEAN : AfterFilter(Head(unchecked_pkgs), stop)
  /\ UNCHANGED <<call, start_package, owner_package, owner_checked_pkgs, offers,
                 ipsf_result>>
  /\ UNCHANGED notIter

\* The queue is empty: line 229.
IterateExhausted ==
  /\ call = "iterateDependentPackages"
  /\ it_pc = "loop"
  /\ unchecked_pkgs = <<>>
  /\ it_pc' = "done"
  /\ it_result' = "false"
  /\ UNCHANGED <<call, start_package, unchecked_pkgs, checked_pkgs, visits,
                 owner_package, owner_checked_pkgs, offers, ipsf_result>>
  /\ UNCHANGED notIter

\* iteratePossibleSourceFiles(file, async_filter), lines 169-179: no package
\* contains the file, or the owner is handed the file and accepts it or not.
IteratePossibleSourceFilesCall ==
  /\ call = "none"
  /\ call' = "iteratePossibleSourceFiles"
  /\ \E containing \in SUBSET (DOMAIN packages) :
     \E own \in {FirstContaining(containing, 1)} :
       /\ owner_package' = own
       /\ IF own = "undefined"
          THEN /\ ipsf_result' = "false"
               /\ UNCHANGED <<offers, owner_checked_pkgs, start_package, it_pc,
                              unchecked_pkgs, checked_pkgs, visits, it_result>>
          ELSE \E stop \in BOOLEAN :
                 /\ offers' = <<<<own, stop>>>>
                 /\ IF stop
                    THEN /\ ipsf_result' = "true"
                         /\ UNCHANGED <<owner_checked_pkgs, start_package, it_pc,
                                        unchecked_pkgs, checked_pkgs, visits, it_result>>
                    ELSE /\ ipsf_result' = "none"
                         /\ owner_checked_pkgs' = <<own>>
                         /\ BeginIteration(own)
  /\ UNCHANGED notIter

\* One turn of the while loop that calls the filter, the filter being the
\* callback of iteratePossibleSourceFiles: lines 180-191.
IterateVisitOffering ==
  /\ call = "iteratePossibleSourceFiles"
  /\ it_pc = "loop"
  /\ unchecked_pkgs # <<>>
  /\ Head(unchecked_pkgs) \notin checked_pkgs
  /\ Registered(packages, Head(unchecked_pkgs))
  /\ \E dep \in {Head(unchecked_pkgs)} :
       IF NeedsOffer(owner_checked_pkgs, dep)
       THEN \E stop \in BOOLEAN :
              /\ offers' = Append(offers, <<dep, stop>>)
              /\ owner_checked_pkgs' =
                   IF stop THEN owner_checked_pkgs ELSE Append(owner_checked_pkgs, dep)
              /\ AfterFilter(dep, stop)
              /\ ipsf_result' = IF stop THEN "true" ELSE ipsf_result
       ELSE /\ AfterFilter(dep, FALSE)
            /\ UNCHANGED <<offers, owner_checked_pkgs, ipsf_result>>
  /\ UNCHANGED <<call, start_package, owner_package>>
  /\ UNCHANGED notIter

\* The queue is empty: iterateDependentPackages returns false (line 229) and
\* iteratePossibleSourceFiles does (lines 192-197).
IterateExhaustedOffering ==
  /\ call = "iteratePossibleSourceFiles"
  /\ it_pc = "loop"
  /\ unchecked_pkgs = <<>>
  /\ it_pc' = "done"
  /\ it_result' = "false"
  /\ ipsf_result' = "false"
  /\ UNCHANGED <<call, start_package, unchecked_pkgs, checked_pkgs, visits,
                 owner_package, owner_checked_pkgs, offers>>
  /\ UNCHANGED notIter

\* The registry is any graph of at most MaxEdges dependees entries.
InitGraph ==
  /\ \E n \in 0..MaxEdges : \E es \in [1..n -> Pkgs \X PkgNames] :
       packages = RegistryOf(es)
  /\ IterIdle
  /\ Constructed
  /\ disk = {}
  /\ compile_commands = EmptyMap
  /\ file_to_command = EmptyMap
  /\ file_to_compile_commands = EmptyMap
  /\ inflight = [d \in DbFiles |-> 0]
  /\ lastOp = Outcome("constructor", NoDb, FALSE, FALSE, FALSE, {})
  /\ untouched = [d \in DbFiles |-> FALSE]
  /\ lastWriter = [f \in SrcFiles |-> NoWriter]

IterateStep ==
  \/ IterateSkipChecked
  \/ IterateSkipUnknown
  \/ IterateVisit
  \/ IterateExhausted
  \/ IterateVisitOffering
  \/ IterateExhaustedOffering

NextGraph ==
  \/ \E p \in Pkgs : IterateDependentPackagesCall(p)
  \/ IteratePossibleSourceFilesCall
  \/ IterateSkipChecked
  \/ IterateSkipUnknown
  \/ IterateVisit
  \/ IterateExhausted
  \/ IterateVisitOffering
  \/ IterateExhaustedOffering

SpecGraph == InitGraph /\ [][NextGraph]_vars

\* The loop is a chain of awaits on promises that settle: a turn that can be
\* taken is taken.
FairSpecGraph == SpecGraph /\ WF_vars(IterateStep)

\* ------------------------------------------------------------------------
\* The traversal: properties.
\* ------------------------------------------------------------------------
\* The names of list that are not in seen, each once, in the order of list.
RECURSIVE NewNames(_, _, _)
NewNames(list, seen, i) ==
  IF i > Len(list) THEN <<>>
  ELSE IF list[i] \in seen THEN NewNames(list, seen, i + 1)
       ELSE <<list[i]>> \o NewNames(list, seen \cup {list[i]}, i + 1)

Range(list) == {list[i] : i \in 1..Len(list)}

\* The textbook breadth-first search, which marks a name when it puts it
\* into the queue: the registered names in the order they leave the queue.
RECURSIVE BreadthFirst(_, _, _)
BreadthFirst(pkgs, queue, seen) ==
  IF queue = <<>> THEN <<>>
  ELSE IF Head(queue) \in DOMAIN pkgs
       THEN <<Head(queue)>> \o
            BreadthFirst(pkgs,
              Tail(queue) \o NewNames(pkgs[Head(queue)].dependees, seen, 1),
              seen \cup Range(pkgs[Head(queue)].dependees))
       ELSE BreadthFirst(pkgs, Tail(queue), seen)

BreadthFirstFrom(pkgs, start) ==
  BreadthFirst(pkgs, NewNames(pkgs[start].dependees, {}, 1),
               Range(pkgs[start].dependees))

\* The registered packages that a path of one or more dependees edges
\* through registered packages leads to from start.
RECURSIVE ReachFrom(_, _)
ReachFrom(pkgs, found) ==
  IF \A p \in found : Range(pkgs[p].dependees) \cap DOMAIN pkgs \subseteq found
  THEN found
  ELSE ReachFrom(pkgs, found \cup
         UNION {Range(pkgs[p].dependees) \cap DOMAIN pkgs : p \in found})

Dependents(pkgs, start) ==
  ReachFrom(pkgs, Range(pkgs[start].dependees) \cap DOMAIN pkgs)

VisitNames == [i \in 1..Len(visits) |-> visits[i][1]]
NoVisitReturnedTrue == \A i \in 1..Len(visits) : ~visits[i][2]
OfferNames == [i \in 1..Len(offers) |-> offers[i][1]]
NoDuplicates(list) ==
  \A i, j \in 1..Len(list) : list[i] = list[j] => i = j

\* C4: whatever the graph (cycles and names of no package included), a call
\* of iterateDependentPackages whose filter never returns true comes to its
\* end, and at its end the filter has been called on the packages that
\* depend on the start package, directly or not, each once, in breadth-first
\* order from the direct dependees of the start package.
C4_BreadthFirstOnceAndEnds ==
  /\ [](( /\ call = "iterateDependentPackages"
          /\ it_pc = "done"
          /\ NoVisitReturnedTrue )
        => /\ VisitNames = BreadthFirstFrom(packages, start_package)
           /\ NoDuplicates(VisitNames)
           /\ Range(VisitNames) = Dependents(packages, start_package)
           /\ it_result = "false")
  /\ ((call = "iterateDependentPackages" /\ it_pc = "loop") ~> (it_pc = "done"))

\* A <- B <- C and A <- D, from A: B and D before C, each once.
C4_Witness ==
  /\ call = "iterateDependentPackages"
  /\ it_pc = "done"
  /\ start_package = "A"
  /\ packages["A"].dependees = <<"B", "D">>
  /\ packages["B"].dependees = <<"C">>
  /\ visits = <<<<"B", FALSE>>, <<"D", FALSE>>, <<"C", FALSE>>>>

\* C5: iterateDependentPackages calls the filter no more once the filter has
\* returned true, and returns true then; it returns false only with the
\* queue empty and no call of the filter having returned true.
C5_ShortCircuit ==
  /\ \A i \in 1..Len(visits) :
       visits[i][2] => (i = Len(visits) /\ it_pc = "done" /\ it_result = "true")
  /\ it_result = "true" => (visits # <<>> /\ visits[Len(visits)][2])
  /\ it_result = "false" => (unchecked_pkgs = <<>> /\ NoVisitReturnedTrue)
  /\ it_pc = "done" <=> it_result \in {"true", "false"}

\* The filter returned true with names still in the queue.
C5_Witness ==
  /\ call = "iterateDependentPackages"
  /\ it_result = "true"
  /\ Len(visits) > 1
  /\ unchecked_pkgs # <<>>

\* C6: iteratePossibleSourceFiles hands the file to the package that
\* contains it first, then to packages that depend on it, no package twice
\* (the owner neither); nothing follows the package that accepts; it returns
\* true exactly when a package accepted, and false only once the owner and
\* all its dependents have refused; with no package containing the file it
\* hands the file to none and returns false.
C6_OfferOwnerFirstEachOnce ==
  call = "iteratePossibleSourceFiles" =>
    /\ owner_package = "undefined" => (offers = <<>> /\ ipsf_result = "false")
    /\ offers # <<>> => offers[1][1] = owner_package
    /\ NoDuplicates(OfferNames)
    /\ owner_package # "undefined" =>
         Range(OfferNames) \subseteq {owner_package} \cup Dependents(packages, owner_package)
    /\ \A i \in 1..Len(offers) :
         offers[i][2] => (i = Len(offers) /\ ipsf_result = "true")
    /\ ipsf_result = "true" => (offers # <<>> /\ offers[Len(offers)][2])
    /\ (ipsf_result = "false" /\ owner_package # "undefined") =>
         Range(OfferNames) = {owner_package} \cup Dependents(packages, owner_package)
    /\ (owner_package # "undefined" /\ ipsf_result = "none") => it_pc = "loop"

\* The owner is on a cycle, was visited again and was not handed the file again.
C6_Witness ==
  /\ call = "iteratePossibleSourceFiles"
  /\ ipsf_result = "false"
  /\ owner_package \in Range(VisitNames)
  /\ Len(offers) > 1

\* ------------------------------------------------------------------------
\* reload, the watches and the events of the build directory.
\* ------------------------------------------------------------------------
\* Most reload calls made from outside.
MaxReloads == 2
\* Most reload calls under way at once: updateProfile calls reload from
\* inside reload.
MaxDepth == 2

\* What findFiles("**/package.xml") may find, and the names in the files.
Descriptors == <<"src/A/package.xml", "src/B/package.xml">>
NameIn(package_xml) == IF package_xml = "src/A/package.xml" THEN "A" ELSE "B"
LoadableNames == {"A", "B"}
\* The package that is built in a directory of the build directory.
BuiltIn(dir) == IF dir = "build/A" THEN "A" ELSE "B"
DbFileIn(dir) ==
  IF dir = "build/A" THEN "build/A/compile_commands.json"
  ELSE "build/B/compile_commands.json"
\* The dependencies a package.xml may declare.
DependencyChoices(name) == {{}} \cup {{d} : d \in LoadableNames \ {name}}

\* The keys the loop `for (var key in this.watchers.keys())` runs on: the
\* enumerable properties of a Map iterator, which has none.
KeysEnumerated(w) == {}

\* The watches left once the handles of the paths closed are closed.
CloseAt(a, closed) == [p \in WatchPaths |-> IF p \in closed THEN a[p] - 1 ELSE a[p]]
OpenAt(a, opened) == [p \in WatchPaths |-> IF p \in opened THEN a[p] + 1 ELSE a[p]]

\* stopWatching(file) then this.watchers.set(file, fs.watch(file, ...)), for
\* every file of files: the watchers and the handles after it.
WatchersAfterStart(w, files) == w \cup files
ActiveAfterStart(w, a, files) == OpenAt(CloseAt(a, w \cap files), files)

\* stopWatching(file)
WatchersAfterStop(w, file) == w \ {file}
ActiveAfterStop(w, a, file) == CloseAt(a, w \cap {file})

\* The for loops of buildDependencyGraph: the packages in the order of
\* PackageOrder from index i, each pushing its name to the dependees of the
\* packages it depends on that are registered.
RECURSIVE PushDependees(_, _, _)
PushDependees(pkgs, name, deps) ==
  IF deps = {} THEN pkgs
  ELSE LET d == CHOOSE x \in deps : TRUE
       IN PushDependees(
            IF d \in DOMAIN pkgs
            THEN [pkgs EXCEPT ![d].dependees = Append(@, name)]
            ELSE pkgs,
            name, deps \ {d})

RECURSIVE BuildDependencyGraph(_, _)
BuildDependencyGraph(pkgs, i) ==
  IF i > Len(PackageOrder) THEN pkgs
  ELSE IF PackageOrder[i] \in DOMAIN pkgs
       THEN BuildDependencyGraph(
              PushDependees(pkgs, PackageOrder[i], pkgs[PackageOrder[i]].dependencies),
              i + 1)
       ELSE BuildDependencyGraph(pkgs, i + 1)

\* A call of reload that has passed line 60.
NewFrame ==
  [pc |-> "clear", xmls |-> <<>>, token |-> FALSE, cancelled |-> FALSE,
   failed |-> {}, loaded |-> {}, shown |-> 0, built |-> FALSE,
   set_ready |-> FALSE, fired |-> FALSE, unprompted |-> FALSE]

Top == frames[Len(frames)]
At(pc) == frames # <<>> /\ Top.pc = pc
SetTop(f) == [frames EXCEPT ![Len(frames)] = f]
Popped == SubSeq(frames, 1, Len(frames) - 1)

\* How a reload call ended, for the history.
Ended(f, outcome, ready) ==
  [outcome |-> outcome, ready |-> ready, cancelled |-> f.cancelled,
   failed |-> f.failed, loaded |-> f.loaded, registered |-> DOMAIN packages,
   left |-> Len(f.xmls),
   shown |-> f.shown, built |-> f.built, set_ready |-> f.set_ready,
   fired |-> f.fired]

StoreUntouched == UNCHANGED <<disk, storeVars, inflight, histVars>>

\* reload() is called from outside: lines 57-60.
ReloadCall ==
  /\ frames = <<>>
  /\ reloads < MaxReloads
  /\ reloads' = reloads + 1
  /\ frames' = <<NewFrame>>
  /\ StoreUntouched
  /\ UNCHANGED <<packages, iterVars, configVars, lastReload, wsVars, watchVars, new_package_loads>>

\* Lines 63-84, and loadAndWatchCompileCommands up to `await getProfile()`
\* (449, 649, 608).
ReloadClear ==
  /\ At("clear")
  /\ watchers' = {}
  /\ active' = CloseAt(active, KeysEnumerated(watchers))
  /\ ClearStore
  /\ lastOp' = Outcome("reload", NoDb, FALSE, TRUE, FALSE, {})
  /\ packages' = EmptyMap
  /\ frames' = SetTop([Top EXCEPT !.pc = "profile"])
  /\ ClearConfig
  /\ UNCHANGED <<disk, inflight, iterVars, reloads, lastReload, wsVars, new_package_loads>>

\* checkProfile, lines 608-611, and updateProfile, lines 614-624: the active
\* profile is any; a new one starts a reload inside this one.
ReloadCheckProfile ==
  /\ At("profile")
  /\ \E profile \in Profiles :
       IF catkin_profile # profile
       THEN /\ Len(frames) < MaxDepth
            /\ catkin_profile' = profile
            /\ catkin_build_dir' = NullDir
            /\ frames' = Append(SetTop([Top EXCEPT !.pc = "checked"]), NewFrame)
       ELSE /\ frames' = SetTop([Top EXCEPT !.pc = "checked"])
            /\ UNCHANGED <<catkin_profile, catkin_build_dir>>
  /\ StoreUntouched
  /\ UNCHANGED <<packages, iterVars, configVars, reloads, lastReload, is_initialized, build_dir,
                 ignore_missing_db, ignored, watchVars, new_package_loads>>

\* (a check that leaves the flag out)
NeedsPromptAlways(db_found, ignore) == ~db_found

\* Line 497: !db_found && !this.ignore_missing_db
NeedsPrompt(db_found, ignore) == ~db_found /\ ~ignore

\* The frame f past line 497, no compile database found or some.
PastGlob(f, db_found) ==
  IF NeedsPrompt(db_found, ignore_missing_db)
  THEN [f EXCEPT !.pc = "prompt"]
  ELSE [f EXCEPT !.pc = "findFiles", !.unprompted = ~db_found]

\* What glob.async finds below a build directory: line 489-491.
Entries(root) == IF root = BuildDir THEN disk ELSE {}

\* loadAndWatchCompileCommands once getBuildDir has returned: lines 450-490
\* (up to `await glob.async`) or, with no build directory, line 497.
AfterGetBuildDir(root) ==
  \E exists \in BOOLEAN :
    /\ Entries(root) # {} => exists
    /\ IF exists
       THEN /\ IF build_dir # root
               THEN /\ build_dir' = root
                    /\ active' = OpenAt(active, {root})
               ELSE UNCHANGED <<build_dir, active>>
            /\ frames' = SetTop([Top EXCEPT !.pc = "glob"])
       ELSE /\ UNCHANGED <<build_dir, active>>
            /\ frames' = SetTop(PastGlob(Top, FALSE))

\* getBuildDir after checkProfile has returned, lines 650-651.
ReloadGetBuildDir ==
  /\ At("checked")
  /\ IF catkin_build_dir = NullDir
     THEN /\ frames' = SetTop([Top EXCEPT !.pc = "locate"])
          /\ UNCHANGED <<build_dir, active>>
     ELSE AfterGetBuildDir(catkin_build_dir)
  /\ StoreUntouched
  /\ UNCHANGED <<packages, iterVars, configVars, reloads, lastReload, is_initialized, catkin_profile,
                 catkin_build_dir, ignore_missing_db, ignored, watchers, new_package_loads>>

\* runCatkinCommand(['locate', '-b']) resolves: lines 652-657, then 450-490.
ReloadLocateOf(dir) ==
  /\ At("locate")
  /\ catkin_build_dir' = dir
  /\ AfterGetBuildDir(dir)
  /\ StoreUntouched
  /\ UNCHANGED <<packages, iterVars, configVars, reloads, lastReload, is_initialized, catkin_profile,
                 ignore_missing_db, ignored, watchers, new_package_loads>>

\* Every profile builds in the one build space.
ReloadLocate == ReloadLocateOf(BuildDir)

\* The build space of each profile.
BuildDirOf(profile) == IF profile = "release" THEN ReleaseBuildDir ELSE BuildDir

\* The profile "release" builds in a build space of its own.
ReloadLocateOwn == ReloadLocateOf(BuildDirOf(catkin_profile))

\* runCatkinCommand(['locate', '-b']) rejects: the catch of lines 85-87 shows
\* the error and reload returns.
ReloadLocateFails ==
  /\ At("locate")
  /\ frames' = Popped
  /\ lastReload' = Ended(Top, "step 3 failed", is_initialized)
  /\ StoreUntouched
  /\ UNCHANGED <<packages, iterVars, configVars, reloads, wsVars, watchVars, new_package_loads>>

\* glob.async rejects with an Error, which has no field `error`: line 86
\* throws in turn, this reload call rejects, and so do the reload calls that
\* await it from their own line 84.
ReloadGlobFails ==
  /\ At("glob")
  /\ frames' = <<>>
  /\ lastReload' = Ended(Top, "step 3 rejected", is_initialized)
  /\ StoreUntouched
  /\ UNCHANGED <<packages, iterVars, configVars, reloads, wsVars, watchVars, new_package_loads>>

\* glob.async resolves with the compile databases there are: lines 491-497,
\* startWatchingCompileCommandsFile (716-726) for each of them.
ReloadGlob ==
  /\ At("glob")
  /\ \E entries \in {Entries(build_dir)} :
       /\ InflightTotal + Cardinality(entries) <= MaxInflight
       /\ inflight' = [d \in DbFiles |->
                         IF d \in entries THEN inflight[d] + 1 ELSE inflight[d]]
       /\ watchers' = WatchersAfterStart(watchers, entries)
       /\ active' = ActiveAfterStart(watchers, active, entries)
       /\ frames' = SetTop(PastGlob(Top, entries # {}))
  /\ UNCHANGED <<disk, storeVars, histVars>>
  /\ UNCHANGED <<packages, iterVars, configVars, reloads, lastReload, wsVars, new_package_loads>>

\* Lines 498-510: getConfigEntry resolves; the configuration exports the
\* compile commands or not, and if not the first warning is shown.
ReloadPrompt ==
  /\ At("prompt")
  /\ \E exports \in BOOLEAN :
       frames' = SetTop([Top EXCEPT !.pc = IF exports THEN "tasks" ELSE "configPrompt"])
  /\ StoreUntouched
  /\ UNCHANGED <<packages, iterVars, configVars, reloads, lastReload, wsVars, watchVars,
                 new_package_loads>>

\* What a warning may be answered with; "none" is the warning dismissed.
Answers == {"ignore", "other", "none"}

\* The user answers the first warning: lines 512-519, and 528 if the answer
\* is not "Ignore this".
ReloadConfigPromptAnswered ==
  /\ At("configPrompt")
  /\ \E result \in Answers :
       IF result = "ignore"
       THEN /\ ignore_missing_db' = TRUE
            /\ ignored' = TRUE
            /\ frames' = SetTop([Top EXCEPT !.pc = "findFiles"])
       ELSE /\ UNCHANGED <<ignore_missing_db, ignored>>
            /\ frames' = SetTop([Top EXCEPT !.pc = "tasks"])
  /\ StoreUntouched
  /\ UNCHANGED <<packages, iterVars, configVars, reloads, lastReload, is_initialized, catkin_profile,
                 catkin_build_dir, build_dir, watchVars, new_package_loads>>

\* fetchTasks resolves and the second warning is shown: lines 528-546.
ReloadFetchTasks ==
  /\ At("tasks")
  /\ frames' = SetTop([Top EXCEPT !.pc = "buildPrompt"])
  /\ StoreUntouched
  /\ UNCHANGED <<packages, iterVars, configVars, reloads, lastReload, wsVars, watchVars,
                 new_package_loads>>

\* The user answers the second warning: lines 547-553, then line 91.
ReloadBuildPromptAnswered ==
  /\ At("buildPrompt")
  /\ \E result \in Answers :
       /\ ignore_missing_db' = (ignore_missing_db \/ result = "ignore")
       /\ ignored' = (ignored \/ result = "ignore")
  /\ frames' = SetTop([Top EXCEPT !.pc = "findFiles"])
  /\ StoreUntouched
  /\ UNCHANGED <<packages, iterVars, configVars, reloads, lastReload, is_initialized, catkin_profile,
                 catkin_build_dir, build_dir, watchVars, new_package_loads>>

\* The head of the loop of line 98 with the descriptors f.xmls to go and
\* the registry pkgs: lines 98-101, and past the loop lines 118-119.
LoopHead(f, pkgs) ==
  /\ lastReload' = lastReload
  /\ IF f.xmls = <<>> \/ f.token
     THEN /\ packages' = BuildDependencyGraph(pkgs, 1)
          /\ frames' = SetTop([f EXCEPT !.pc = "built", !.built = TRUE,
                                        !.cancelled = (f.xmls # <<>>)])
     ELSE /\ packages' = pkgs
          /\ frames' = SetTop([f EXCEPT !.pc = "packages"])

\* findFiles resolves: lines 91-101.
ReloadFindFilesOf(ns) ==
  /\ At("findFiles")
  /\ \E n \in ns :
       LoopHead([Top EXCEPT !.xmls = SubSeq(Descriptors, 1, n)], packages)
  /\ StoreUntouched
  /\ UNCHANGED <<iterVars, configVars, reloads, wsVars, watchVars, new_package_loads>>

ReloadFindFiles == ReloadFindFilesOf(0..Len(Descriptors))

\* The same in a workspace with no package.xml.
ReloadFindNoFiles == ReloadFindFilesOf({0})

\* loadPackage(package_xml), lines 132-141, loadFromXML resolving with a
\* package of the dependencies deps (parsed) or rejecting: the registry
\* after it, the name it added, and whether it threw.
LoadPackage(pkgs, package_xml, parsed, deps) ==
  IF parsed
  THEN [pkgs |-> MapSet(pkgs, NameIn(package_xml),
                        [dependencies |-> deps, dependees |-> <<>>]),
        added |-> {NameIn(package_xml)}, threw |-> FALSE]
  ELSE [pkgs |-> pkgs, added |-> {}, threw |-> FALSE]

\* loadPackage of the descriptor at hand settles: lines 111-117, then the
\* head of the loop.
ReloadLoadPackage ==
  /\ At("packages")
  /\ \E parsed \in BOOLEAN : \E deps \in DependencyChoices(NameIn(Head(Top.xmls))) :
       /\ ~parsed => deps = {}
       /\ \E r \in {LoadPackage(packages, Head(Top.xmls), parsed, deps)} :
            LoopHead([Top EXCEPT !.xmls = Tail(@),
                                 !.loaded = @ \cup r.added,
                                 !.failed = IF parsed THEN @ ELSE @ \cup {Head(Top.xmls)},
                                 !.shown = IF r.threw THEN @ + 1 ELSE @],
                     r.pkgs)
  /\ StoreUntouched
  /\ UNCHANGED <<iterVars, configVars, reloads, wsVars, watchVars, new_package_loads>>

\* The token of withProgress reports a cancellation.
RequestCancellation ==
  /\ frames # <<>>
  /\ Top.pc \in {"findFiles", "packages"}
  /\ ~Top.token
  /\ frames' = SetTop([Top EXCEPT !.token = TRUE])
  /\ StoreUntouched
  /\ UNCHANGED <<packages, iterVars, configVars, reloads, lastReload, wsVars, watchVars,
                 new_package_loads>>

\* Lines 121-124.
SetInitialized(f) ==
  /\ is_initialized' = TRUE
  /\ frames' = SetTop([f EXCEPT !.pc = "fire", !.set_ready = TRUE])

ReloadSetInitialized ==
  /\ At("built")
  /\ SetInitialized(Top)
  /\ StoreUntouched
  /\ UNCHANGED <<packages, iterVars, configVars, reloads, lastReload, catkin_profile, catkin_build_dir,
                 build_dir, ignore_missing_db, ignored, watchVars, new_package_loads>>

\* Lines 124-128: onWorkspaceInitialized fires and reload returns.
ReloadFire ==
  /\ At("fire")
  /\ frames' = Popped
  /\ lastReload' = Ended([Top EXCEPT !.fired = TRUE], "done", is_initialized)
  /\ StoreUntouched
  /\ UNCHANGED <<packages, iterVars, configVars, reloads, wsVars, watchVars, new_package_loads>>

\* The watch on the build directory reports a new directory: lines 460-468,
\* startWatchingCatkinPackageBuildDir (693-706).
PackageBuildDirCreated(dir) ==
  /\ active[BuildDir] > 0
  /\ dir \notin new_package_loads
  /\ watchers' = WatchersAfterStart(watchers, {dir})
  /\ active' = ActiveAfterStart(watchers, active, {dir})
  /\ new_package_loads' = new_package_loads \cup {dir}
  /\ StoreUntouched
  /\ UNCHANGED <<packages, iterVars, configVars, frames, reloads, lastReload, wsVars>>

\* The rest of that handler, lines 469-477: locatePackageXML finds no
\* package.xml (line 470 throws), or loadPackage settles.
NewPackageLoaded(dir) ==
  /\ dir \in new_package_loads
  /\ new_package_loads' = new_package_loads \ {dir}
  /\ \E found \in BOOLEAN : \E parsed \in BOOLEAN :
     \E deps \in DependencyChoices(BuiltIn(dir)) :
       /\ ~(found /\ parsed) => deps = {}
       /\ ~found => ~parsed
       /\ packages' =
            IF found
            THEN LoadPackage(packages,
                             IF BuiltIn(dir) = "A" THEN Descriptors[1] ELSE Descriptors[2],
                             parsed, deps).pkgs
            ELSE packages
  /\ StoreUntouched
  /\ UNCHANGED <<iterVars, configVars, frames, reloads, lastReload, wsVars, watchVars>>

\* The watch on the build directory reports a directory gone: lines 479-483.
PackageBuildDirCleaned(dir) ==
  /\ active[BuildDir] > 0
  /\ DbFileIn(dir) \notin disk
  /\ watchers' = WatchersAfterStop(watchers, dir)
  /\ active' = ActiveAfterStop(watchers, active, dir)
  /\ StoreUntouched
  /\ UNCHANGED <<packages, iterVars, configVars, frames, reloads, lastReload, wsVars,
                 new_package_loads>>

\* A watch on a directory of a package reports compile_commands.json, which
\* exists: lines 697-703, startWatchingCompileCommandsFile (716-726).
CompileCommandsFileAppeared(dir) ==
  /\ active[dir] > 0
  /\ DbFileIn(dir) \in disk
  /\ UpdateDatabaseUnawaited(DbFileIn(dir))
  /\ watchers' = WatchersAfterStart(watchers, {DbFileIn(dir)})
  /\ active' = ActiveAfterStart(watchers, active, {DbFileIn(dir)})
  /\ UNCHANGED <<packages, iterVars, configVars, frames, reloads, lastReload, wsVars,
                 new_package_loads>>

\* A watch on a compile database reports a change: lines 721-724.
CompileCommandsFileChanged(db_file) ==
  /\ active[db_file] > 0
  /\ UpdateDatabaseUnawaited(db_file)
  /\ UNCHANGED notStore

InitReload ==
  /\ packages = EmptyMap
  /\ IterIdle
  /\ Constructed
  /\ disk \in SUBSET DbFiles
  /\ compile_commands = EmptyMap
  /\ file_to_command = EmptyMap
  /\ file_to_compile_commands = EmptyMap
  /\ inflight = [d \in DbFiles |-> 0]
  /\ lastOp = Outcome("constructor", NoDb, FALSE, FALSE, FALSE, {})
  /\ untouched = [d \in DbFiles |-> FALSE]
  /\ lastWriter = [f \in SrcFiles |-> NoWriter]

NextReload ==
  \/ ReloadCall
  \/ ReloadClear
  \/ ReloadCheckProfile
  \/ ReloadGetBuildDir
  \/ ReloadLocate
  \/ ReloadLocateFails
  \/ ReloadGlob
  \/ ReloadGlobFails
  \/ ReloadPrompt
  \/ ReloadConfigPromptAnswered
  \/ ReloadFetchTasks
  \/ ReloadBuildPromptAnswered
  \/ ReloadFindFiles
  \/ ReloadLoadPackage
  \/ RequestCancellation
  \/ ReloadSetInitialized
  \/ ReloadFire
  \/ \E d \in DbFiles : UpdateDatabaseMergeBuilt(d)

\* reload in a workspace whose compile databases stay as they are.
SpecReload == InitReload /\ [][NextReload]_vars

\* The one package that the build builds in SpecWatch.
BuiltDirs == {"build/A"}
BuiltDbFiles == {DbFileIn(dir) : dir \in BuiltDirs}

InitWatch ==
  /\ InitReload
  /\ disk \subseteq BuiltDbFiles

NextWatch ==
  \/ ReloadCall
  \/ ReloadClear
  \/ ReloadCheckProfile
  \/ ReloadGetBuildDir
  \/ ReloadLocate
  \/ ReloadGlob
  \/ ReloadPrompt
  \/ ReloadConfigPromptAnswered
  \/ ReloadFetchTasks
  \/ ReloadBuildPromptAnswered
  \/ ReloadFindNoFiles
  \/ ReloadSetInitialized
  \/ ReloadFire
  \/ \E dir \in BuiltDirs : PackageBuildDirCreated(dir)
  \/ \E dir \in BuiltDirs : NewPackageLoaded(dir)
  \/ \E dir \in BuiltDirs : PackageBuildDirCleaned(dir)
  \/ \E dir \in BuiltDirs : CompileCommandsFileAppeared(dir)
  \/ \E d \in BuiltDbFiles : CompileCommandsFileChanged(d)
  \/ \E d \in BuiltDbFiles : DiskCreate(d)
  \/ \E d \in BuiltDbFiles : DiskRemove(d)
  \/ \E d \in BuiltDbFiles : ReadFileFails(d)
  \/ \E d \in BuiltDbFiles : UpdateDatabaseMergeBuilt(d)

\* reload and the events of the build directory in a workspace with no
\* package.xml, where the build builds one package.
SpecWatch == InitWatch /\ [][NextWatch]_vars

\* ------------------------------------------------------------------------
\* reload and the watches: properties.
\* ------------------------------------------------------------------------

\* C7: a reload call whose compile databases step (line 84) failed has
\* ended with isInitialized() false, whether an earlier reload had made the
\* workspace ready or not.
C7_Step3FailureLeavesUninitialized ==
  lastReload.outcome \in {"step 3 failed", "step 3 rejected"} => ~lastReload.ready

\* C8: a reload call that found its token cancelled at the head of the loop
\* over the descriptors has kept the packages it loaded, has not built the
\* dependency graph, has not set is_initialized and has not fired
\* onWorkspaceInitialized.
C8_CancellationSkipsGraphAndReady ==
  lastReload.cancelled =>
    /\ lastReload.loaded \subseteq lastReload.registered
    /\ ~lastReload.built
    /\ ~lastReload.set_ready
    /\ ~lastReload.fired

\* C9: a reload call that went through its loop over the descriptors has
\* shown one error message for each descriptor that failed to parse, has not
\* registered the packages of those, has tried every descriptor and has made
\* the workspace ready.
C9_OneDiagnosticPerFailedDescriptor ==
  (lastReload.outcome = "done" /\ ~lastReload.cancelled) =>
    /\ lastReload.shown = Cardinality(lastReload.failed)
    /\ \A x \in lastReload.failed : NameIn(x) \notin lastReload.registered
    /\ lastReload.left = 0
    /\ lastReload.set_ready
    /\ lastReload.ready

\* C10: no path has more than one fs.watch handle that is not closed.
C10_NoDuplicateWatches ==
  \A p \in WatchPaths : active[p] <= 1

\* The watched paths that are the directory dir or lie under it.
PathsUnder(dir) == {dir, DbFileIn(dir)}

\* C11: when the watch on the build directory reports a directory of a
\* package gone, every watcher whose path is that directory or lies under
\* it is closed and leaves the Map watchers.
C11_RemovalStopsWatchesUnder ==
  [][\A dir \in PkgBuildDirs :
       PackageBuildDirCleaned(dir) =>
         /\ watchers' \cap PathsUnder(dir) = {}
         /\ \A p \in watchers \cap PathsUnder(dir) : active'[p] = active[p] - 1]_vars

\* C12: once the user has answered a warning about missing compile
\* databases with "Ignore this", no reload call shows such a warning, the
\* first or the second.
C12_IgnoreIsRemembered ==
  ignored => \A i \in 1..Len(frames) : frames[i].pc \notin {"configPrompt", "buildPrompt"}

\* A reload found no compile database after the answer and went on unprompted.
C12_Witness ==
  /\ ignored
  /\ frames # <<>>
  /\ Top.unprompted
  /\ reloads = MaxReloads

\* C13: updateDatabase on a file that does not exist returns true, and
\* dispatches build_commands_changed exactly when it removed a record.
C13_NoFileSignalsOnlyRemoval ==
  lastOp.op = "updateDatabase, no file" =>
    /\ lastOp.returned
    /\ lastOp.signalled <=> lastOp.touched # {}

\* C14: when the file of an updateDatabase call vanishes between existsSync
\* and the end of readFile, the call removes the records whose origin is the
\* file and ends without an error.
C14_VanishedFileIsRemoval ==
  [][\A d \in DbFiles :
       ReadFileFails(d) =>
         /\ OriginKeys(file_to_compile_commands', d) = {}
         /\ lastOp'.op # "updateDatabase, rejected"]_vars

\* ------------------------------------------------------------------------
\* getSourceFileConfiguration and the compiler defaults.
\*
\* execSync blocks, so a call of getSourceFileConfiguration is one action.
\* The compilers of the machine and what they print are the environment.
\* ------------------------------------------------------------------------
Gxx == "/usr/bin/g++"
Clangxx == "/usr/bin/clang++"
\* prints no search list
QuietCc == "/opt/quiet/cc"
\* exits with a non-zero status
BrokenGxx == "/opt/broken/g++"
\* two installations of the GPU compiler: the first rejects the options of
\* the generic invocation, the second hands them to its host compiler
CudaNvcc == "/usr/local/cuda/bin/nvcc"
HostedNvcc == "/opt/cuda/bin/nvcc"
Ccache == "/usr/bin/ccache"
Sccache == "/usr/bin/sccache"

Compilers == {Gxx, Clangxx, QuietCc, BrokenGxx, CudaNvcc, HostedNvcc, Ccache, Sccache}

\* The command strings of the compile databases.
CompileCommands ==
  { "/usr/bin/g++ -I/ws/src/A/include -DNDEBUG",
    "/usr/bin/clang++ -isystem /usr/include/eigen3 -DNAME=\\\"A\\\"",
    "/opt/quiet/cc -I/opt/ros/include",
    "/opt/broken/g++ -isystem=/opt/ros/include",
    "/usr/local/cuda/bin/nvcc -I/opt/ros/include",
    "/opt/cuda/bin/nvcc -DNDEBUG",
    "/usr/bin/ccache /usr/bin/g++ -I/ws/src/A/include",
    "/usr/bin/ccache",
    "/usr/bin/sccache /usr/bin/ccache /usr/bin/clang++ -DNDEBUG",
    "/usr/bin/ccache /opt/broken/g++" }

\* Calls of getSourceFileConfiguration between two reloads.
MaxCalls == 3

\* commands.command.split(' ')
Split(command) ==
  CASE command = "/usr/bin/g++ -I/ws/src/A/include -DNDEBUG" ->
         <<Gxx, "-I/ws/src/A/include", "-DNDEBUG">>
    [] command = "/usr/bin/clang++ -isystem /usr/include/eigen3 -DNAME=\\\"A\\\"" ->
         <<Clangxx, "-isystem", "/usr/include/eigen3", "-DNAME=\\\"A\\\"">>
    [] command = "/opt/quiet/cc -I/opt/ros/include" ->
         <<QuietCc, "-I/opt/ros/include">>
    [] command = "/opt/broken/g++ -isystem=/opt/ros/include" ->
         <<BrokenGxx, "-isystem=/opt/ros/include">>
    [] command = "/usr/local/cuda/bin/nvcc -I/opt/ros/include" ->
         <<CudaNvcc, "-I/opt/ros/include">>
    [] command = "/opt/cuda/bin/nvcc -DNDEBUG" ->
         <<HostedNvcc, "-DNDEBUG">>
    [] command = "/usr/bin/ccache /usr/bin/g++ -I/ws/src/A/include" ->
         <<Ccache, Gxx, "-I/ws/src/A/include">>
    [] command = "/usr/bin/ccache" ->
         <<Ccache>>
    [] command = "/usr/bin/sccache /usr/bin/ccache /usr/bin/clang++ -DNDEBUG" ->
         <<Sccache, Ccache, Clangxx, "-DNDEBUG">>
    [] command = "/usr/bin/ccache /opt/broken/g++" ->
         <<Ccache, BrokenGxx>>

\* args.slice(1)
Slice1(args) == IF args = <<>> THEN <<>> ELSE Tail(args)

\* opt.startsWith(prefix), with what opt.slice(prefix.length) is then.
Option(opt) ==
  CASE opt = "-I/ws/src/A/include" -> [prefix |-> "-I", rest |-> "/ws/src/A/include"]
    [] opt = "-I/opt/ros/include" -> [prefix |-> "-I", rest |-> "/opt/ros/include"]
    [] opt = "-isystem=/opt/ros/include" -> [prefix |-> "-isystem=", rest |-> "/opt/ros/include"]
    [] opt = "-DNDEBUG" -> [prefix |-> "-D", rest |-> "NDEBUG"]
    [] opt = "-DNAME=\\\"A\\\"" -> [prefix |-> "-D", rest |-> "NAME=\\\"A\\\""]
    [] OTHER -> [prefix |-> "", rest |-> opt]

\* define.replace(/\\/g, "")
WithoutBackslashes(define) ==
  IF define = "NAME=\\\"A\\\"" THEN "NAME=\"A\"" ELSE define

\* The workspace folder is /ws.
isWorkspacePath(path) == path \in {"/ws/src/A/include"}

\* compiler.split('/'), the last element
CompilerName(compiler) ==
  CASE compiler = Gxx -> "g++"
    [] compiler = Clangxx -> "clang++"
    [] compiler = QuietCc -> "cc"
    [] compiler = BrokenGxx -> "g++"
    [] compiler = CudaNvcc -> "nvcc"
    [] compiler = HostedNvcc -> "nvcc"
    [] compiler = Ccache -> "ccache"
    [] compiler = Sccache -> "sccache"
    [] OTHER -> compiler

\* compiler_name.indexOf('ccache') >= 0
ContainsCcache(compiler_name) == compiler_name \in {"ccache", "sccache"}

SearchListOfGxx ==
  << "Using built-in specs.",
     "#include \"...\" search starts here:",
     "#include <...> search starts here:",
     " /usr/include/c++/9",
     " /usr/include",
     "End of search list.",
     "" >>

SearchListOfClangxx ==
  << "clang version 10.0.0",
     "#include \"...\" search starts here:",
     " /usr/local/include",
     "#include <...> search starts here:",
     " /usr/lib/clang/10/include",
     "End of search list.",
     "" >>

\* child_process.execSync(compiler + ' -xc++ -E -v /dev/null -o /dev/null 2>&1'):
\* the exit status, and stdout.split('\n').
ExecSyncCpp(compiler) ==
  CASE compiler \in {Gxx, HostedNvcc} -> [status |-> 0, stdout |-> SearchListOfGxx]
    [] compiler = Clangxx -> [status |-> 0, stdout |-> SearchListOfClangxx]
    [] compiler = QuietCc -> [status |-> 0, stdout |-> <<"cc: no input files", "">>]
    [] OTHER -> [status |-> 1, stdout |-> <<>>]

\* child_process.execSync(compiler + ' --dryrun -v /dev/null 1>&2'): the exit
\* status, and err.message.split('\n').
ExecSyncNvcc(compiler) ==
  CASE compiler = CudaNvcc ->
         [status |-> 1,
          message |-> << "Command failed: /usr/local/cuda/bin/nvcc --dryrun -v /dev/null 1>&2",
                         "#$ _SPACE_= ",
                         "#$ INCLUDES=\"-I/usr/local/cuda/include  \"  ",
                         "#$ LIBRARIES=  \"-L/usr/local/cuda/lib64\"" >>]
    [] compiler = HostedNvcc ->
         [status |-> 1,
          message |-> << "Command failed: /opt/cuda/bin/nvcc --dryrun -v /dev/null 1>&2",
                         "#$ INCLUDES=\"-I/opt/cuda/include -I/opt/cuda/extras  \"" >>]
    [] OTHER -> [status |-> 1, message |-> <<"/bin/sh: not found">>]

\* line.trim() and path.trim()
Trim(text) ==
  CASE text = " /usr/include/c++/9" -> "/usr/include/c++/9"
    [] text = " /usr/include" -> "/usr/include"
    [] text = " /usr/local/include" -> "/usr/local/include"
    [] text = " /usr/lib/clang/10/include" -> "/usr/lib/clang/10/include"
    [] text = "/usr/local/cuda/include  " -> "/usr/local/cuda/include"
    [] text = "/opt/cuda/include " -> "/opt/cuda/include"
    [] text = "/opt/cuda/extras  " -> "/opt/cuda/extras"
    [] OTHER -> text

\* line.match(/^#\$ INCLUDES="(.*)"\s*$/), then match[1].split("-I"); no
\* element where the line does not match.
IncludesOf(line) ==
  CASE line = "#$ INCLUDES=\"-I/usr/local/cuda/include  \"  " ->
         <<"", "/usr/local/cuda/include  ">>
    [] line = "#$ INCLUDES=\"-I/opt/cuda/include -I/opt/cuda/extras  \"" ->
         <<"", "/opt/cuda/include ", "/opt/cuda/extras  ">>
    [] OTHER -> <<>>

\* The state parseCompilerDefaults works on: the field
\* default_system_include_paths, whether an exception is on its way out,
\* the strategies that ran with their compiler, the dispatches of
\* system_paths_changed.
Resolution(paths) == [paths |-> paths, threw |-> FALSE, runs |-> <<>>, signals |-> 0]

\* The loop of parseCompilerDefaultsCpp over the lines of stdout.
RECURSIVE ScanSearchList(_, _, _, _, _)
ScanSearchList(lines, i, private_includes, public_includes, paths) ==
  IF i > Len(lines) THEN paths
  ELSE IF lines[i] = "#include \"...\" search starts here:"
       THEN ScanSearchList(lines, i + 1, TRUE, FALSE, paths)
  ELSE IF lines[i] = "#include <...> search starts here:"
       THEN ScanSearchList(lines, i + 1, FALSE, TRUE, paths)
  ELSE IF lines[i] = "End of search list."
       THEN ScanSearchList(lines, i + 1, FALSE, FALSE, paths)
  ELSE IF private_includes \/ public_includes
       THEN ScanSearchList(lines, i + 1, private_includes, public_includes,
                           Append(paths, Trim(lines[i])))
  ELSE ScanSearchList(lines, i + 1, private_includes, public_includes, paths)

\* execSync throws where the command exits with a non-zero status, and
\* nothing here catches it.
parseCompilerDefaultsCpp(compiler, d) ==
  LET out == ExecSyncCpp(compiler)
      ran == [d EXCEPT !.runs = Append(@, <<"Cpp", compiler>>)]
  IN IF out.status # 0
     THEN [ran EXCEPT !.threw = TRUE]
     ELSE [ran EXCEPT !.paths = ScanSearchList(out.stdout, 1, FALSE, FALSE, @)]

\* The inner loop of parseCompilerDefaultsNvcc over match[1].split("-I").
RECURSIVE PushTrimmed(_, _, _)
PushTrimmed(parts, j, paths) ==
  IF j > Len(parts) THEN paths
  ELSE IF Trim(parts[j]) # ""
       THEN PushTrimmed(parts, j + 1, Append(paths, Trim(parts[j])))
  ELSE PushTrimmed(parts, j + 1, paths)

\* Its outer loop over the lines of err.message.
RECURSIVE ScanIncludes(_, _, _)
ScanIncludes(lines, i, paths) ==
  IF i > Len(lines) THEN paths
  ELSE ScanIncludes(lines, i + 1, PushTrimmed(IncludesOf(lines[i]), 1, paths))

\* The dry run is read in the catch block only.
parseCompilerDefaultsNvcc(compiler, d) ==
  LET out == ExecSyncNvcc(compiler)
      ran == [d EXCEPT !.runs = Append(@, <<"Nvcc", compiler>>)]
  IN IF out.status = 0
     THEN ran
     ELSE [ran EXCEPT !.paths = ScanIncludes(out.message, 1, @)]

\* A wrapper that asks the caching compiler itself.
parseCompilerDefaultsCcacheNotDeferring(caching_compiler, args, d) ==
  IF Len(args) = 0
  THEN [d EXCEPT !.runs = Append(@, <<"Ccache", caching_compiler>>)]
  ELSE parseCompilerDefaultsCpp(caching_compiler,
                                [d EXCEPT !.runs = Append(@, <<"Ccache", caching_compiler>>)])

RECURSIVE parseCompilerDefaults(_, _, _)
RECURSIVE parseCompilerDefaultsCcache(_, _, _)

\* Lines 337-352. The second `if` does not belong to the first: whatever
\* the first did, a name without 'ccache' goes on to parseCompilerDefaultsCpp.
parseCompilerDefaults(compiler, args, d) ==
  LET compiler_name == CompilerName(compiler)
      cleared == [d EXCEPT !.paths = <<>>]
      first == IF compiler_name = "nvcc"
               THEN parseCompilerDefaultsNvcc(compiler, cleared)
               ELSE cleared
      second == IF ContainsCcache(compiler_name)
                THEN parseCompilerDefaultsCcache(compiler, args, first)
                ELSE parseCompilerDefaultsCpp(compiler, first)
  IN IF second.threw THEN second ELSE [second EXCEPT !.signals = @ + 1]

parseCompilerDefaultsCcache(caching_compiler, args, d) ==
  IF Len(args) = 0
  THEN [d EXCEPT !.runs = Append(@, <<"Ccache", caching_compiler>>)]
  ELSE parseCompilerDefaults(args[1], Slice1(args),
                             [d EXCEPT !.runs = Append(@, <<"Ccache", caching_compiler>>)])

\* Lines 250-283, the three branches that add a path.
AddIncludePath(acc, path) ==
  LET is_new == ~isWorkspacePath(path) /\ path \notin Range(acc.browse)
  IN [acc EXCEPT !.includePaths = Append(@, path),
                 !.browse = IF is_new THEN Append(@, path) ELSE @,
                 !.new_system_path_found = @ \/ is_new]

\* The loop of lines 247-289; args[1] is the compiler.
RECURSIVE ParseOptions(_, _, _)
ParseOptions(args, i, acc) ==
  IF i > Len(args) THEN acc
  ELSE IF Option(args[i]).prefix = "-I"
       THEN ParseOptions(args, i + 1, AddIncludePath(acc, Option(args[i]).rest))
  ELSE IF args[i] = "-isystem"
       THEN ParseOptions(args, i + 2, AddIncludePath(acc, args[i + 1]))
  ELSE IF Option(args[i]).prefix = "-isystem="
       THEN ParseOptions(args, i + 1, AddIncludePath(acc, Option(args[i]).rest))
  ELSE IF Option(args[i]).prefix = "-D"
       THEN ParseOptions(args, i + 1,
                         [acc EXCEPT !.defines = Append(@, WithoutBackslashes(Option(args[i]).rest))])
  ELSE ParseOptions(args, i + 1, acc)

\* What the options of a command give with no browse path known.
Explicit(command) ==
  ParseOptions(Split(command), 2,
               [includePaths |-> <<>>, defines |-> <<>>, browse |-> <<>>,
                new_system_path_found |-> FALSE])

\* The settings catkin_tools.cppStandard and catkin_tools.intelliSenseMode.
CppStandard == "c++14"
IntelliSenseMode == "gcc-x64"

NoConfiguration ==
  [standard |-> "none", intelliSenseMode |-> "none", includePath |-> <<>>,
   defines |-> <<>>, compilerPath |-> "none"]

\* Line 239: the defaults are asked for while the list is empty.
NeedsDefaults(paths) == Len(paths) = 0

getSourceFileConfiguration(commands) ==
  /\ Len(configurations) < MaxCalls
  /\ \E args \in {Split(commands)} :
     \E d \in {IF NeedsDefaults(default_system_include_paths)
               THEN parseCompilerDefaults(args[1], Slice1(args),
                                          Resolution(default_system_include_paths))
               ELSE Resolution(default_system_include_paths)} :
       /\ default_system_include_paths' = d.paths
       /\ IF d.threw
          THEN /\ UNCHANGED system_include_browse_paths
               /\ configurations' =
                    Append(configurations,
                           [command |-> commands, runs |-> d.runs, threw |-> TRUE,
                            defaults |-> d.paths, signals |-> d.signals,
                            ret |-> NoConfiguration])
          ELSE \E acc \in {ParseOptions(args, 2,
                             [includePaths |-> <<>>, defines |-> <<>>,
                              browse |-> system_include_browse_paths,
                              new_system_path_found |-> FALSE])} :
                 /\ system_include_browse_paths' = acc.browse
                 /\ configurations' =
                      Append(configurations,
                             [command |-> commands, runs |-> d.runs, threw |-> FALSE,
                              defaults |-> d.paths,
                              signals |-> d.signals
                                          + (IF acc.new_system_path_found THEN 1 ELSE 0),
                              ret |-> [standard |-> CppStandard,
                                       intelliSenseMode |-> IntelliSenseMode,
                                       includePath |-> acc.includePaths \o d.paths,
                                       defines |-> acc.defines,
                                       compilerPath |-> args[1]]])
  /\ UNCHANGED <<disk, storeVars, inflight, histVars, packages, iterVars, reloadVars>>

InitConfig == InitStore

NextConfig ==
  \/ \E commands \in CompileCommands : getSourceFileConfiguration(commands)
  \/ StoreReload

SpecConfig == InitConfig /\ [][NextConfig]_vars

\* ------------------------------------------------------------------------
\* Claims about the compiler defaults.
\* ------------------------------------------------------------------------
CompilerOf(k) == Split(configurations[k].command)[1]

\* What parseCompilerDefaults leaves in default_system_include_paths for the
\* compiler and the arguments of a command, asked with nothing known.
ResolvedFor(command) ==
  parseCompilerDefaults(Split(command)[1], Slice1(Split(command)), Resolution(<<>>))

\* C15: between two reloads the defaults appended to the includePath of a
\* record are the ones resolved for the compiler of that record, and the
\* resolver runs at most once for each distinct compiler path, a resolution
\* that gave an empty list included.
C15_DefaultsMemoizedPerCompiler ==
  /\ \A k \in 1..Len(configurations) :
       ~configurations[k].threw =>
         configurations[k].defaults = ResolvedFor(configurations[k].command).paths
  /\ \A c \in Compilers :
       Cardinality({k \in 1..Len(configurations) :
                      CompilerOf(k) = c /\ configurations[k].runs # <<>>}) <= 1

\* The calls that asked for the defaults of a compiler whose name holds
\* 'ccache'.
WrapperCalls ==
  {k \in 1..Len(configurations) :
     /\ configurations[k].runs # <<>>
     /\ ContainsCcache(CompilerName(CompilerOf(k)))}

\* What a wrapper call left: the list, and whether it threw.
Left(k) == <<configurations[k].defaults, configurations[k].threw>>

\* Resolving the first remaining argument as the compiler, with the
\* arguments after it, not through the wrapper.
Unwrapped(k) ==
  LET remaining == Slice1(Split(configurations[k].command))
      direct == parseCompilerDefaults(remaining[1], Slice1(remaining), Resolution(<<>>))
  IN <<direct.paths, direct.threw>>

\* C16: resolving the defaults of a cache wrapper followed by c, a1, ..., an
\* gives what resolving c with a1, ..., an gives, wrappers inside wrappers
\* included; a wrapper followed by nothing gives the empty list and no error.
C16_WrapperUnwraps ==
  \A k \in WrapperCalls :
    IF Len(Split(configurations[k].command)) = 1
    THEN Left(k) = <<(<<>>), FALSE>>
    ELSE Left(k) = Unwrapped(k)

\* A wrapper alone has been resolved, and then a wrapper around a wrapper
\* around a compiler with a search list.
C16_Witness ==
  /\ \E k \in WrapperCalls : Len(Split(configurations[k].command)) = 1
  /\ \E k \in WrapperCalls :
       /\ CompilerName(CompilerOf(k)) = "sccache"
       /\ configurations[k].defaults # <<>>

\* The calls that asked for the defaults of a compiler named nvcc.
GpuCalls ==
  {k \in 1..Len(configurations) :
     /\ configurations[k].runs # <<>>
     /\ CompilerName(CompilerOf(k)) = "nvcc"}

\* The non-empty trimmed paths of the INCLUDES line of the dry run.
GpuIncludes(compiler) == ScanIncludes(ExecSyncNvcc(compiler).message, 1, <<>>)

\* C17: for a compiler whose base name is exactly nvcc one strategy runs:
\* the defaults are the non-empty trimmed paths split on -I out of the
\* INCLUDES line of the dry run, and the generic strategy is not run.
C17_GpuStrategyOnly ==
  \A k \in GpuCalls :
    /\ configurations[k].defaults = GpuIncludes(CompilerOf(k))
    /\ \A r \in Range(configurations[k].runs) : r[1] # "Cpp"

\* The generic invocation of this compiler fails or prints no search list.
GenericFails(compiler) ==
  \/ ExecSyncCpp(compiler).status # 0
  \/ ScanSearchList(ExecSyncCpp(compiler).stdout, 1, FALSE, FALSE, <<>>) = <<>>

\* The calls in which the generic strategy, and no other, hit such a compiler.
GenericFailureCalls ==
  {k \in 1..Len(configurations) :
     /\ \E r \in Range(configurations[k].runs) : r[1] = "Cpp" /\ GenericFails(r[2])
     /\ \A r \in Range(configurations[k].runs) : r[1] # "Nvcc"}

\* C18: where the generic invocation exits non-zero or prints nothing that
\* parses, the list of defaults is empty and getSourceFileConfiguration
\* returns the include paths, the defines and the compiler of the command
\* without raising.
C18_ResolutionFailureDoesNotAbort ==
  \A k \in GenericFailureCalls :
    /\ ~configurations[k].threw
    /\ configurations[k].defaults = <<>>
    /\ configurations[k].ret.includePath = Explicit(configurations[k].command).includePaths
    /\ configurations[k].ret.defines = Explicit(configurations[k].command).defines
    /\ configurations[k].ret.compilerPath = CompilerOf(k)

\* ------------------------------------------------------------------------
\* Claims about the graph a reload builds and about the reload sequence.
\* ------------------------------------------------------------------------
\* The registered packages that declare Q as a dependency.
DeclaredBy(Q) == {P \in DOMAIN packages : Q \in packages[P].dependencies}

\* C19: when a reload has reached Ready, the dependees of every registered
\* package Q hold the name of each registered package that declares Q, once,
\* and nothing else; a dependency on an unregistered name gives no edge.
C19_DependeesAreTheDeclarers ==
  At("fire") =>
    \A Q \in DOMAIN packages :
      /\ Range(packages[Q].dependees) = DeclaredBy(Q)
      /\ NoDuplicates(packages[Q].dependees)

\* C20: a reload call runs its sequence once, as one line: while it is under
\* way it starts no second reload on the same workspace (through the profile
\* check of getBuildDir, say), so that workspaceInitialized fires once.
C20_ReloadStartsNoReload ==
  Len(frames) <= 1

\* ------------------------------------------------------------------------
\* Claims about the store while reloads and watches run.
\* ------------------------------------------------------------------------
\* The source files the compile database db_file lists on disk.
ListedOnDisk(db_file) ==
  {c[i].file : c \in BuiltContents, i \in 1..MaxRecords}

\* C21: when reload is about to fire workspaceInitialized, the first
\* updateDatabase of every compile database its glob found has returned, and
\* file_to_command has a record for every source file those databases list.
C21_ReadyAfterInitialUpdates ==
  At("fire") =>
    \A d \in watchers \cap DbFiles :
      /\ inflight[d] = 0
      /\ ListedOnDisk(d) \subseteq DOMAIN file_to_command

\* ------------------------------------------------------------------------
\* reload and the watch on the build directory in a workspace with two
\* packages and no compile database, where the build builds one package.
\* ------------------------------------------------------------------------
InitRegistry ==
  /\ InitReload
  /\ disk = {}

NextRegistry ==
  \/ ReloadCall
  \/ ReloadClear
  \/ ReloadCheckProfile
  \/ ReloadGetBuildDir
  \/ ReloadLocate
  \/ ReloadGlob
  \/ ReloadPrompt
  \/ ReloadConfigPromptAnswered
  \/ ReloadFetchTasks
  \/ ReloadBuildPromptAnswered
  \/ ReloadFindFiles
  \/ ReloadLoadPackage
  \/ ReloadSetInitialized
  \/ ReloadFire
  \/ \E dir \in BuiltDirs : PackageBuildDirCreated(dir)
  \/ \E dir \in BuiltDirs : NewPackageLoaded(dir)

SpecRegistry == InitRegistry /\ [][NextRegistry]_vars

\* P is among the dependees of Q exactly if P declares Q, for all
\* registered P and Q of the registry pkgs.
GraphConsistent(pkgs) ==
  \A P, Q \in DOMAIN pkgs :
    P \in Range(pkgs[Q].dependees) <=> Q \in pkgs[P].dependencies

\* C22: between reloads, once Ready, the dependees agree with the declared
\* dependencies of the registered packages, and the callback of the watch on
\* the build directory that loads one package keeps it so.
C22_WatchCallbackKeepsGraph ==
  [][\A dir \in BuiltDirs :
       (/\ NewPackageLoaded(dir)
        /\ is_initialized
        /\ frames = <<>>
        /\ GraphConsistent(packages)) => GraphConsistent(packages')]_vars

\* No updateDatabase call waits for readFile.
Settled == InflightTotal = 0

\* Every source file that a compile database which was read and still
\* exists lists has a record.
Covered(on_disk, commands, ftc) ==
  \A d \in on_disk \cap DOMAIN commands :
    \A i \in 1..Len(commands[d]) : commands[d][i].file \in DOMAIN ftc

\* C23: with no call pending and the files as they were read, every source
\* file listed in a compile database that still exists has a record, also
\* once the updateDatabase for a deleted compile database has run, the
\* deleted one having written the record of a source file that another
\* existing compile database lists.
C23_DeletionKeepsListedFiles ==
  [][\A d \in DbFiles :
       (/\ UpdateDatabaseMissing(d)
        /\ Settled
        /\ Covered(disk, compile_commands, file_to_command))
       => Covered(disk', compile_commands', file_to_command')]_vars

\* ------------------------------------------------------------------------
\* reload, the watches on the compile databases and the updateDatabase calls
\* in a workspace where a switch of the profile changes the build directory.
\* ------------------------------------------------------------------------
NextSwitch ==
  \/ ReloadCall
  \/ ReloadClear
  \/ ReloadCheckProfile
  \/ ReloadGetBuildDir
  \/ ReloadLocateOwn
  \/ ReloadGlob
  \/ ReloadPrompt
  \/ ReloadConfigPromptAnswered
  \/ ReloadFetchTasks
  \/ ReloadBuildPromptAnswered
  \/ ReloadFindNoFiles
  \/ ReloadSetInitialized
  \/ ReloadFire
  \/ \E d \in BuiltDbFiles : CompileCommandsFileChanged(d)
  \/ \E d \in BuiltDbFiles : UpdateDatabaseMergeBuilt(d)

SpecSwitch == InitWatch /\ [][NextSwitch]_vars

\* The build directory a compile database lies in.
RootOf(db_file) == BuildDir

\* C24: once a reload that changed the build directory has cleared the store
\* and the new build directory is known, no key of file_to_compile_commands
\* has a compile database outside it as its origin: no updateDatabase call
\* that was waiting when the store was cleared and no watch of before the
\* reload writes one.
C24_NoRecordFromOldBuildDir ==
  catkin_build_dir # NullDir =>
    \A f \in DOMAIN file_to_compile_commands :
      RootOf(file_to_compile_commands[f]) = catkin_build_dir

====
